---- MODULE Spec2Model ----
(***************************************************************************)
(* Verification model of the AQC orchestration core: the retrying          *)
(* validator supervisor (main.py), the policy engine (policy_engine.py,    *)
(* run_ci.py) and the status aggregation of the master report              *)
(* (generate_master_report.py, master_aggregator.py,                       *)
(* segment_master_aggregator.py).                                          *)
(* Further components, each with a specification of its own: per-module    *)
(* escalation (EscSpec), segment merge (MrgSpec), event stitching          *)
(* (StitchSpec), the schema validator (SchSpec), run_qc_pipeline           *)
(* (PipeSpec), the deviation loader (LdrSpec), the segmenters (SegSpec),   *)
(* the merge of segment reports (SegMergeSpec), the parallel runner        *)
(* (ParSpec), the event collection of the master report (EvtSpec) and the  *)
(* scalar metrics of the segment merge (MetSpec).                          *)
(***************************************************************************)
EXTENDS Integers, Sequences, FiniteSets, TLC

\* ------------------------------------------------------------------------
\* Constants of the program and bounds of the model
\* ------------------------------------------------------------------------
MAX_RETRIES == 2

\* number of entries of the VALIDATORS registry that the model runs
NumValidators == 2

\* longest list of deviations handed to resolve_module_status
MaxDevs == 2

\* largest number of modules in a map handed to an aggregation function
MaxModules == 3

MISSING == "<missing>"

Status4 == {"PASSED", "WARNING", "REJECTED", "ERROR"}

\* ------------------------------------------------------------------------
\* The report file of one validator (outdir / report_<module>.json)
\* ------------------------------------------------------------------------
\* kind: "absent" no file; "corrupt" bytes that json.load rejects;
\*       "nonobject" JSON whose top level is no dict; "object" a JSON dict.
\* by/at: who wrote the file and during which attempt of the current call
\*       (at = 0: before the call started).
File(kind, status, eff, by, at) ==
    [kind |-> kind, status |-> status, effective_status |-> eff, by |-> by, at |-> at]

Absent == File("absent", MISSING, MISSING, "nobody", 0)

\* What a validator process may leave at --output: nothing new, garbage,
\* non-dict JSON, a report carrying status and effective_status, or a legacy
\* report that carries neither.
ValidatorOutputs ==
    {[kind |-> "corrupt", status |-> MISSING, effective_status |-> MISSING],
     [kind |-> "nonobject", status |-> MISSING, effective_status |-> MISSING],
     [kind |-> "object", status |-> MISSING, effective_status |-> MISSING]}
    \cup {[kind |-> "object", status |-> s, effective_status |-> s] : s \in Status4}

\* What an earlier run into the same output directory may have left behind.
StaleFiles == {Absent, File("object", "PASSED", "PASSED", "earlier_run", 0)}

\* crash_data of run_validator_with_retry
CrashReport == File("object", "CRASHED", "CRASHED", "supervisor", 0)

\* d.get("effective_status", d.get("status", "UNKNOWN"))
ReportStatus(f) ==
    IF f.effective_status # MISSING THEN f.effective_status
    ELSE IF f.status # MISSING THEN f.status
    ELSE "UNKNOWN"

\* report_path.exists()
Exists(f) == f.kind # "absent"

\* Outcome of json.load(f) followed by d.get(...): the exception class raised,
\* or "ok".
LoadOutcome(f) ==
    CASE f.kind = "corrupt" -> "JSONDecodeError"
      [] f.kind = "nonobject" -> "AttributeError"
      [] OTHER -> "ok"

\* except json.JSONDecodeError  (inner handler)
InnerCatches(exc) == exc = "JSONDecodeError"

OuterCatches_OnlySpawnErrors(exc) == exc = "OSError"

\* except Exception  (outer handler)
OuterCatches(exc) == exc \in {"JSONDecodeError", "AttributeError", "OSError"}

AttemptSucceeds_IgnoresExitCode(rc, f) == Exists(f) /\ LoadOutcome(f) = "ok"

\* result.returncode == 0 and report_path.exists(), then the file loads
AttemptSucceeds(rc, f) == rc = 0 /\ Exists(f) /\ LoadOutcome(f) = "ok"

WriteCrashReport_KeepsExisting(f) == IF Exists(f) THEN f ELSE CrashReport

\* with open(report_path, "w") ...: json.dump(crash_data, f)
WriteCrashReport(f) == CrashReport

\* ------------------------------------------------------------------------
\* generate_master_report.main: status bubbling over the report files
\* ------------------------------------------------------------------------
status_priority(s) ==
    CASE s = "CRASHED" -> 4
      [] s \in {"REJECTED", "CORRUPT"} -> 3
      [] s = "WARNING" -> 2
      [] s = "PASSED" -> 1
      [] OTHER -> 0

\* the loop of main over the statuses read from the inputs, in input order;
\* acc = <<max_severity, overall_status>>
RECURSIVE BubbleFrom(_, _)
BubbleFrom(statuses, acc) ==
    IF statuses = << >> THEN acc
    ELSE LET s == Head(statuses)
             sev == status_priority(s)
         IN BubbleFrom(Tail(statuses),
                       IF sev > acc[1] THEN <<sev, s>> ELSE acc)

MasterOverallStatus(statuses) == BubbleFrom(statuses, <<0, "PASSED">>)[2]

\* ------------------------------------------------------------------------
\* Policy engine: src/policy/policy_engine.py and src/ci/run_ci.py
\* ------------------------------------------------------------------------
CI_POLICY(s) ==
    CASE s = "PASSED" -> 0
      [] s = "WARNING" -> 0
      [] s = "REJECTED" -> 2
      [] s = "ERROR" -> 3

TOOLING_MODULES == {"qctools_qc"}

DEVIATION_ELIGIBLE_ERRORS ==
    {"QCTOOLS_UNAVAILABLE", "QCTOOLS_NOT_INSTALLED", "QCTOOLS_BUILD_MISSING"}

\* f"Deviation applied: {dev.get('id')}"
Note(dev) == [text |-> "Deviation applied", id |-> dev.id]

\* the deviations of the list that the loop of policy_engine.py stops at
ModuleMatches(module, devs) ==
    SelectSeq(devs, LAMBDA d : d.module = module)

\* the deviations of the list that the loop of run_ci.py stops at
ModuleAndConditionMatch(module, error_code, devs) ==
    SelectSeq(devs, LAMBDA d : d.module = module /\ d.condition = error_code)

RECURSIVE NotesOf(_)
NotesOf(devs) ==
    IF devs = << >> THEN << >> ELSE <<Note(Head(devs))>> \o NotesOf(Tail(devs))

resolve_module_status_NoStrictGuard(report, profile, devs) ==
    IF report.status = "ERROR"
       /\ report.module \in TOOLING_MODULES
       /\ report.error_code \in DEVIATION_ELIGIBLE_ERRORS
       /\ ModuleMatches(report.module, devs) # << >>
    THEN <<"NOT_APPLICABLE", <<Note(Head(ModuleMatches(report.module, devs)))>> >>
    ELSE <<report.status, << >> >>

resolve_module_status_NoteForEveryMatch(report, profile, devs) ==
    IF report.status = "ERROR" /\ profile # "strict"
       /\ report.module \in TOOLING_MODULES
       /\ report.error_code \in DEVIATION_ELIGIBLE_ERRORS
       /\ ModuleMatches(report.module, devs) # << >>
    THEN <<"NOT_APPLICABLE", NotesOf(ModuleMatches(report.module, devs))>>
    ELSE <<report.status, << >> >>

\* policy_engine.resolve_module_status: <<effective_status, annotations>>
resolve_module_status(report, profile, devs) ==
    LET status == report.status
        module == report.module
        error_code == report.error_code
        matching == ModuleMatches(module, devs)
    IN IF status \in {"PASSED", "WARNING"} THEN <<status, << >> >>
       ELSE IF status = "REJECTED" THEN <<status, << >> >>
       ELSE IF status = "ERROR"
            THEN IF profile = "strict" THEN <<status, << >> >>
                 ELSE IF module \in TOOLING_MODULES
                         /\ error_code \in DEVIATION_ELIGIBLE_ERRORS
                         /\ matching # << >>
                      THEN <<"NOT_APPLICABLE", <<Note(Head(matching))>> >>
                      ELSE <<status, << >> >>
            ELSE <<status, << >> >>

\* run_ci.resolve_module_status: <<effective_status, policy_notes>>
run_ci_resolve_module_status(report, profile, devs) ==
    LET status == report.status
        module == report.module
        error_code == report.error_code
        matching == ModuleAndConditionMatch(module, error_code, devs)
    IN IF status \in {"PASSED", "WARNING"} THEN <<status, << >> >>
       ELSE IF status = "REJECTED" THEN <<status, << >> >>
       ELSE IF status = "ERROR"
            THEN IF profile = "strict" THEN <<status, << >> >>
                 ELSE IF module \in TOOLING_MODULES
                         /\ error_code \in DEVIATION_ELIGIBLE_ERRORS
                         /\ matching # << >>
                      THEN <<"NOT_APPLICABLE", <<Note(Head(matching))>> >>
                      ELSE <<status, << >> >>
            ELSE <<status, << >> >>

\* policy_engine.compute_ci: the loop over modules_effective_status.values()
RECURSIVE PeWorst(_, _)
PeWorst(statuses, worst) ==
    IF statuses = << >> THEN worst
    ELSE LET s == Head(statuses)
         IN IF s \in {"ERROR", "REJECTED"} THEN "ERROR"
            ELSE PeWorst(Tail(statuses),
                         IF s = "WARNING" /\ worst = "PASSED" THEN "WARNING" ELSE worst)

compute_ci(statuses) ==
    LET worst == PeWorst(statuses, "PASSED")
    IN <<worst, CI_POLICY(worst)>>

\* run_ci.compute_ci: the loop over modules_effective_status.values();
\* "RETURN_ERROR" stands for the return inside the loop
RECURSIVE CiWorst(_, _)
CiWorst(statuses, worst) ==
    IF statuses = << >> THEN worst
    ELSE LET s == Head(statuses)
         IN IF s = "ERROR" THEN "ERROR"
            ELSE CiWorst(Tail(statuses),
                         IF s = "REJECTED" THEN "REJECTED"
                         ELSE IF s = "WARNING" /\ worst = "PASSED" THEN "WARNING"
                         ELSE worst)

run_ci_compute_ci(statuses) ==
    LET worst == CiWorst(statuses, "PASSED")
    IN <<worst, CI_POLICY(worst)>>

\* ------------------------------------------------------------------------
\* master_aggregator.MasterAggregator and
\* segment_master_aggregator.aggregate_segments
\* ------------------------------------------------------------------------
\* MasterAggregator.aggregate lines 41-45: the status stored for a module
\* after a report with this status came in
Escalate(stored, status) ==
    IF status = "REJECTED" THEN "REJECTED"
    ELSE IF status = "WARNING" /\ stored # "REJECTED" THEN "WARNING"
    ELSE stored

\* MasterAggregator._calculate_overall_status over the modules' statuses
CalculateOverallStatus(statuses) ==
    LET have == {statuses[i] : i \in 1..Len(statuses)}
    IN IF "REJECTED" \in have THEN "REJECTED"
       ELSE IF "WARNING" \in have THEN "WARNING"
       ELSE "PASSED"

\* aggregate_segments: status_rank.get(effective_status, 0)
status_rank(s) ==
    CASE s = "PASSED" -> 0
      [] s = "WARNING" -> 1
      [] s = "REJECTED" -> 2
      [] s = "ERROR" -> 3
      [] OTHER -> 0

RECURSIVE WorstRank(_, _)
WorstRank(statuses, worst) ==
    IF statuses = << >> THEN worst
    ELSE LET r == status_rank(Head(statuses))
         IN WorstRank(Tail(statuses), IF r > worst THEN r ELSE worst)

RankStatus(r) ==
    CASE r = 0 -> "PASSED"
      [] r = 1 -> "WARNING"
      [] r = 2 -> "REJECTED"
      [] r = 3 -> "ERROR"

\* aggregate_segments over one segment master whose modules carry these
\* statuses: <<overall_status, ci_exit_code>>, or the ValueError for a master
\* without modules
aggregate_segments(statuses) ==
    IF statuses = << >> THEN <<"ValueError", 1>>
    ELSE LET overall == RankStatus(WorstRank(statuses, 0))
         IN <<overall, CI_POLICY(overall)>>

\* ------------------------------------------------------------------------
\* State
\* ------------------------------------------------------------------------
VARIABLES
    pc,        \* position of the orchestrator
    vi,        \* index into VALIDATORS of the validator being run
    attempt,   \* loop variable of the retry loop
    spawns,    \* subprocess.run calls made by the current supervisor call
    rc,        \* result.returncode of the last subprocess
    files,     \* files[i]: the report file of validator i
    results,   \* results list of main: one returned dict per validator
    master,    \* Master_Report.json
    exitCode,  \* exit code of the orchestrator process (-1: still running)
    pol,       \* one run of the policy engine over a module report
    agg,       \* one run of a verdict function over a map of module statuses
    esc,       \* one module's stored status while reports are fed to an aggregator
    mrg,       \* one run of the segment merge / event stitching
    sch,       \* one call of validate_validator_output
    pipe,      \* one run of run_qc_pipeline
    ldr,       \* one call of load_known_deviations
    seg,       \* one run of a video segmenter
    par        \* one run of the parallel runner over a directory of videos

supVars == <<pc, vi, attempt, spawns, rc, files, results, master, exitCode>>

libVars == <<esc, mrg, sch, pipe, ldr, seg, par>>

vars == <<supVars, pol, agg, libVars>>

Validators == 1..NumValidators

NoReport == [module |-> MISSING, status |-> MISSING, error_code |-> MISSING]

PolIdle ==
    [stage |-> "idle", impl |-> MISSING, report |-> NoReport, profile |-> MISSING,
     devs |-> << >>, effective |-> MISSING, notes |-> << >>, ci |-> << >>]

AggIdle == [stage |-> "idle", statuses |-> << >>, fn |-> MISSING, verdict |-> << >>]

\* a library component that is not running
Idle == [stage |-> "idle"]

\* every component but `own` is not running
LibIdleBut(own) ==
    /\ IF own = "esc" THEN TRUE ELSE esc = Idle
    /\ IF own = "mrg" THEN TRUE ELSE mrg = Idle
    /\ IF own = "sch" THEN TRUE ELSE sch = Idle
    /\ IF own = "pipe" THEN TRUE ELSE pipe = Idle
    /\ IF own = "ldr" THEN TRUE ELSE ldr = Idle
    /\ IF own = "seg" THEN TRUE ELSE seg = Idle
    /\ IF own = "par" THEN TRUE ELSE par = Idle

NoMaster == [exists |-> FALSE, overall_status |-> MISSING, modules |-> << >>]

\* ------------------------------------------------------------------------
\* The orchestrator: main and run_validator_with_retry
\* ------------------------------------------------------------------------
Init ==
    /\ pol = PolIdle
    /\ agg = AggIdle
    /\ LibIdleBut("")
    /\ pc = "call"
    /\ vi = 1
    /\ attempt = 0
    /\ spawns = 0
    /\ rc = 0
    /\ files \in [Validators -> StaleFiles]
    /\ results = << >>
    /\ master = NoMaster
    /\ exitCode = -1

\* main line 199: res = run_validator_with_retry(...); loop entry, attempt = 1
CallSupervisor ==
    /\ pc = "call"
    /\ attempt' = 1
    /\ spawns' = 0
    /\ pc' = "attempt"
    /\ UNCHANGED <<vi, rc, files, results, master, exitCode, pol, agg, libVars>>

\* subprocess.run(cmd, ...) is entered
StartAttempt ==
    /\ pc = "attempt"
    /\ spawns' = spawns + 1
    /\ pc' = "running"
    /\ UNCHANGED <<vi, attempt, rc, files, results, master, exitCode, pol, agg, libVars>>

\* the validator process ends with some exit code, having written its
\* output or not
ValidatorExits ==
    /\ pc = "running"
    /\ \E code \in {0, 1} :
       \E wrote \in BOOLEAN :
       \E out \in ValidatorOutputs :
          /\ rc' = code
          /\ files' = IF wrote
                      THEN [files EXCEPT ![vi] = File(out.kind, out.status,
                                out.effective_status, "validator", attempt)]
                      ELSE files
    /\ pc' = "check"
    /\ UNCHANGED <<vi, attempt, spawns, results, master, exitCode, pol, agg, libVars>>

\* subprocess.run raises (the interpreter cannot be started)
SpawnRaises ==
    /\ pc = "running"
    /\ pc' = IF OuterCatches("OSError") THEN "after" ELSE "raised"
    /\ UNCHANGED <<vi, attempt, spawns, rc, files, results, master, exitCode, pol, agg, libVars>>

\* the validator process never exits: subprocess.run has no timeout argument
ValidatorHangs ==
    /\ pc = "running"
    /\ pc' = "blocked"
    /\ UNCHANGED <<vi, attempt, spawns, rc, files, results, master, exitCode, pol, agg, libVars>>

Returned(status, how) == [status |-> status, how |-> how]

\* lines 98-125: the test of the attempt
CheckAttempt ==
    /\ pc = "check"
    /\ LET f == files[vi]
           exc == LoadOutcome(f)
       IN IF AttemptSucceeds(rc, f)
          THEN /\ pc' = "returned"
               /\ results' = Append(results, Returned(ReportStatus(f), "success"))
          ELSE /\ results' = results
               /\ pc' = IF rc = 0 /\ Exists(f) /\ exc # "ok"
                           /\ ~InnerCatches(exc) /\ ~OuterCatches(exc)
                        THEN "raised"
                        ELSE "after"
    /\ UNCHANGED <<vi, attempt, spawns, rc, files, master, exitCode, pol, agg, libVars>>

\* lines 128-129 and the next iteration of the for loop
Retry ==
    /\ pc = "after"
    /\ attempt <= MAX_RETRIES
    /\ attempt' = attempt + 1
    /\ pc' = "attempt"
    /\ UNCHANGED <<vi, spawns, rc, files, results, master, exitCode, pol, agg, libVars>>

\* lines 132-150: the loop is exhausted
Exhausted ==
    /\ pc = "after"
    /\ attempt > MAX_RETRIES
    /\ files' = [files EXCEPT ![vi] = WriteCrashReport(files[vi])]
    /\ results' = Append(results, Returned("CRASHED", "exhausted"))
    /\ pc' = "returned"
    /\ UNCHANGED <<vi, attempt, spawns, rc, master, exitCode, pol, agg, libVars>>

\* main line 198-200: results.append(res), next validator
NextValidator ==
    /\ pc = "returned"
    /\ IF vi < NumValidators
       THEN /\ vi' = vi + 1
            /\ pc' = "call"
       ELSE /\ vi' = vi
            /\ pc' = "aggregate"
    /\ UNCHANGED <<attempt, spawns, rc, files, results, master, exitCode, pol, agg, libVars>>

\* [r["report"] for r in results if Path(r["report"]).exists()]
ExistingReports == SelectSeq([i \in Validators |-> i], LAMBDA i : Exists(files[i]))

\* the placeholder reports of crashed validators are left out
InputStatuses_SkipsCrashed ==
    LET ok == SelectSeq(ExistingReports,
                        LAMBDA i : LoadOutcome(files[i]) = "ok"
                                   /\ ReportStatus(files[i]) # "CRASHED")
    IN [k \in 1..Len(ok) |-> ReportStatus(files[ok[k]])]

\* the statuses generate_master_report reads from its inputs (a file that
\* does not load is skipped with a warning)
InputStatuses ==
    LET ok == SelectSeq(ExistingReports, LAMBDA i : LoadOutcome(files[i]) = "ok")
    IN [k \in 1..Len(ok) |-> ReportStatus(files[ok[k]])]

\* main lines 205-216: python -m src.postprocess.generate_master_report
GenerateMasterReport ==
    /\ pc = "aggregate"
    /\ master' = IF ExistingReports # << >>
                 THEN [exists |-> TRUE,
                       overall_status |-> MasterOverallStatus(InputStatuses),
                       modules |-> InputStatuses]
                 ELSE master
    /\ pc' = "finish"
    /\ UNCHANGED <<vi, attempt, spawns, rc, files, results, exitCode, pol, agg, libVars>>

\* main returns: the interpreter exits with code 0
MainReturns ==
    /\ pc = "finish"
    /\ exitCode' = 0
    /\ pc' = "exited"
    /\ UNCHANGED <<vi, attempt, spawns, rc, files, results, master, pol, agg, libVars>>

Next ==
    \/ CallSupervisor
    \/ StartAttempt
    \/ ValidatorExits
    \/ SpawnRaises
    \/ ValidatorHangs
    \/ CheckAttempt
    \/ Retry
    \/ Exhausted
    \/ NextValidator
    \/ GenerateMasterReport
    \/ MainReturns

Spec == Init /\ [][Next]_vars

\* ------------------------------------------------------------------------
\* The policy engine applied to one module report
\* ------------------------------------------------------------------------
\* the orchestrator is not running
SupIdle ==
    /\ pc = "idle"
    /\ vi = 1
    /\ attempt = 0
    /\ spawns = 0
    /\ rc = 0
    /\ files = [i \in Validators |-> Absent]
    /\ results = << >>
    /\ master = NoMaster
    /\ exitCode = -1

Profiles == {"strict", "ott", "youtube"}

ModuleNames == {"qctools_qc", "artifact_qc"}

\* module reports as the tests build them: module, status, optional error_code
Reports ==
    [module : ModuleNames,
     status : Status4 \cup {"CRASHED"},
     error_code : {MISSING, "QCTOOLS_UNAVAILABLE", "DECODE_FAILED"}]

\* deviation blocks: module, condition, whether expires_on has passed, and
\* the profiles line
DevBlocks ==
    [module : ModuleNames,
     condition : {"QCTOOLS_UNAVAILABLE", "QCTOOLS_NOT_INSTALLED"},
     expired : BOOLEAN,
     profiles : {{"ott"}, {"strict"}}]

\* lists of deviations; the id of a block is its place in the file
DevLists ==
    UNION {{[i \in 1..n |->
               [id |-> i, module |-> l[i].module, condition |-> l[i].condition,
                expired |-> l[i].expired, profiles |-> l[i].profiles]]
            : l \in [1..n -> DevBlocks]} : n \in 0..MaxDevs}

PolInit ==
    /\ SupIdle
    /\ agg = AggIdle
    /\ LibIdleBut("")
    /\ \E r \in Reports : \E p \in Profiles : \E d \in DevLists :
          pol = [PolIdle EXCEPT !.stage = "input", !.report = r,
                                !.profile = p, !.devs = d]

\* policy_engine.resolve_module_status(module_report, profile, deviations)
PeResolve ==
    /\ pol.stage = "input"
    /\ LET out == resolve_module_status(pol.report, pol.profile, pol.devs)
       IN pol' = [pol EXCEPT !.stage = "resolved", !.impl = "policy_engine",
                             !.effective = out[1], !.notes = out[2]]
    /\ UNCHANGED <<supVars, agg, libVars>>

\* run_ci.resolve_module_status(module_report, profile, deviations)
CiResolve ==
    /\ pol.stage = "input"
    /\ LET out == run_ci_resolve_module_status(pol.report, pol.profile, pol.devs)
       IN pol' = [pol EXCEPT !.stage = "resolved", !.impl = "run_ci",
                             !.effective = out[1], !.notes = out[2]]
    /\ UNCHANGED <<supVars, agg, libVars>>

\* policy_engine.compute_ci({module: effective_status})
PeComputeCi ==
    /\ pol.stage = "resolved"
    /\ pol.impl = "policy_engine"
    /\ pol' = [pol EXCEPT !.stage = "done", !.ci = compute_ci(<<pol.effective>>)]
    /\ UNCHANGED <<supVars, agg, libVars>>

\* run_ci.compute_ci({module: effective_status})
CiComputeCi ==
    /\ pol.stage = "resolved"
    /\ pol.impl = "run_ci"
    /\ pol' = [pol EXCEPT !.stage = "done", !.ci = run_ci_compute_ci(<<pol.effective>>)]
    /\ UNCHANGED <<supVars, agg, libVars>>

PolNext ==
    \/ PeResolve
    \/ CiResolve
    \/ PeComputeCi
    \/ CiComputeCi

PolicySpec == PolInit /\ [][PolNext]_vars

\* ------------------------------------------------------------------------
\* The verdict functions applied to a map of module statuses
\* ------------------------------------------------------------------------
EffectiveStatuses == Status4 \cup {"NOT_APPLICABLE", "CRASHED"}

\* the values of a map module -> status, in the map's iteration order
StatusLists == UNION {[1..n -> EffectiveStatuses] : n \in 0..MaxModules}

AggInit ==
    /\ SupIdle
    /\ pol = PolIdle
    /\ LibIdleBut("")
    /\ \E l \in StatusLists : agg = [AggIdle EXCEPT !.stage = "input", !.statuses = l]

Verdict(fn, v) == [agg EXCEPT !.stage = "done", !.fn = fn, !.verdict = v]

\* policy_engine.compute_ci
AggPeComputeCi ==
    /\ agg.stage = "input"
    /\ agg' = Verdict("policy_engine.compute_ci", compute_ci(agg.statuses))
    /\ UNCHANGED <<supVars, pol, libVars>>

\* run_ci.compute_ci
AggCiComputeCi ==
    /\ agg.stage = "input"
    /\ agg' = Verdict("run_ci.compute_ci", run_ci_compute_ci(agg.statuses))
    /\ UNCHANGED <<supVars, pol, libVars>>

\* generate_master_report.main over one report per module; the master report
\* it writes has no ci_exit_code and the program ends with exit code 0
AggGenerateMasterReport ==
    /\ agg.stage = "input"
    /\ agg' = Verdict("generate_master_report", <<MasterOverallStatus(agg.statuses), 0>>)
    /\ UNCHANGED <<supVars, pol, libVars>>

\* MasterAggregator.aggregate over one segment with one report per module;
\* the master report has no exit code
AggMasterAggregator ==
    /\ agg.stage = "input"
    /\ LET stored == [i \in 1..Len(agg.statuses) |-> Escalate("PASSED", agg.statuses[i])]
       IN agg' = Verdict("MasterAggregator", <<CalculateOverallStatus(stored), 0>>)
    /\ UNCHANGED <<supVars, pol, libVars>>

\* aggregate_segments over one segment master with these modules
AggAggregateSegments ==
    /\ agg.stage = "input"
    /\ agg' = Verdict("aggregate_segments", aggregate_segments(agg.statuses))
    /\ UNCHANGED <<supVars, pol, libVars>>

AggNext ==
    \/ AggPeComputeCi
    \/ AggCiComputeCi
    \/ AggGenerateMasterReport
    \/ AggMasterAggregator
    \/ AggAggregateSegments

AggSpec == AggInit /\ [][AggNext]_vars

\* ------------------------------------------------------------------------
\* Reports for one module fed, one at a time, to an aggregator
\* ------------------------------------------------------------------------
MaxReports == 3

\* the orchestrator, the policy engine and the verdict functions are not running
CoreIdle ==
    /\ SupIdle
    /\ pol = PolIdle
    /\ agg = AggIdle

Aggregators == {"MasterAggregator", "aggregate_segments", "generate_master_report"}

EscInit ==
    /\ CoreIdle
    /\ LibIdleBut("esc")
    /\ \E a \in Aggregators :
          esc = [stage |-> "feeding", impl |-> a, seen |-> << >>, stored |-> MISSING]

Fed(status, stored) ==
    [esc EXCEPT !.seen = Append(esc.seen, status), !.stored = stored]

\* MasterAggregator.aggregate: the entry starts as PASSED and is escalated
EscMasterAggregator ==
    /\ esc.stage = "feeding"
    /\ esc.impl = "MasterAggregator"
    /\ Len(esc.seen) < MaxReports
    /\ \E status \in Status4 :
          LET module_master == IF esc.stored = MISSING THEN "PASSED" ELSE esc.stored
          IN esc' = Fed(status, Escalate(module_master, status))
    /\ UNCHANGED <<supVars, pol, agg, mrg, sch, pipe, ldr, seg, par>>

\* aggregate_segments: the entry is created by the first report of the module;
\* a later report only increments segments_seen
EscAggregateSegments ==
    /\ esc.stage = "feeding"
    /\ esc.impl = "aggregate_segments"
    /\ Len(esc.seen) < MaxReports
    /\ \E effective_status \in Status4 :
          esc' = Fed(effective_status,
                     IF esc.stored = MISSING THEN effective_status ELSE esc.stored)
    /\ UNCHANGED <<supVars, pol, agg, mrg, sch, pipe, ldr, seg, par>>

\* generate_master_report.main: modules[module_name] = data
EscGenerateMasterReport ==
    /\ esc.stage = "feeding"
    /\ esc.impl = "generate_master_report"
    /\ Len(esc.seen) < MaxReports
    /\ \E status \in Status4 : esc' = Fed(status, status)
    /\ UNCHANGED <<supVars, pol, agg, mrg, sch, pipe, ldr, seg, par>>

EscNext ==
    \/ EscMasterAggregator
    \/ EscAggregateSegments
    \/ EscGenerateMasterReport

EscSpec == EscInit /\ [][EscNext]_vars

\* ------------------------------------------------------------------------
\* Events: segment merge and stitching.  Times are in units of 0.1 s, the
\* tolerance of stitch_events; the details string "a | b" is the sequence
\* <<"a", "b">> of its parts.
\* ------------------------------------------------------------------------
Tolerance == 1
SegmentSec == 3000
MaxSegments == 2
MaxEvents == 3

Event(type, start_time, end_time, details) ==
    [type |-> type, start_time |-> start_time, end_time |-> end_time,
     details |-> details]

\* str.__contains__ on details strings
IsSubstring(x, y) ==
    \E i \in 1..(Len(y) - Len(x) + 1) : SubSeq(y, i, i + Len(x) - 1) = x

\* both sorts compare the start times only
KeyLess_StartOnly(key, a, b) == a.start_time < b.start_time

\* comparison of the sort keys (type, start_time) and start_time
KeyLess(key, a, b) ==
    IF key = "type,start_time"
    THEN \/ a.type = "black_frame" /\ b.type = "freeze_frame"
         \/ a.type = b.type /\ a.start_time < b.start_time
    ELSE a.start_time < b.start_time

\* sorted(events, key=...): stable
RECURSIVE sorted(_, _)
sorted(events, key) ==
    IF events = << >> THEN << >>
    ELSE LET n == Len(events)
             e == events[n]
             init == sorted(SubSeq(events, 1, n - 1), key)
             after == {i \in 1..(n - 1) : KeyLess(key, e, init[i])}
             at == IF after = {} THEN n ELSE CHOOSE i \in after : \A j \in after : i <= j
         IN SubSeq(init, 1, at - 1) \o <<e>> \o SubSeq(init, at, n - 1)

\* a merge emits the merged event and goes on with the event after it
RECURSIVE MergePass_EmitsAfterMerge(_, _, _)
MergePass_EmitsAfterMerge(current, rest, stitched) ==
    IF rest = << >> THEN Append(stitched, current)
    ELSE LET next_evt == Head(rest)
             merged == [current EXCEPT !.end_time =
                           IF @ >= next_evt.end_time THEN @ ELSE next_evt.end_time]
         IN IF /\ current.type = next_evt.type
               /\ next_evt.start_time <= current.end_time + Tolerance
            THEN IF Len(rest) = 1 THEN Append(stitched, merged)
                 ELSE MergePass_EmitsAfterMerge(rest[2], Tail(Tail(rest)),
                                                Append(stitched, merged))
            ELSE MergePass_EmitsAfterMerge(next_evt, Tail(rest), Append(stitched, current))

\* the loop of stitch_events over sorted_events[1:]
RECURSIVE MergePass(_, _, _)
MergePass(current, rest, stitched) ==
    IF rest = << >> THEN Append(stitched, current)
    ELSE LET next_evt == Head(rest)
         IN IF /\ current.type = next_evt.type
               /\ next_evt.start_time <= current.end_time + Tolerance
            THEN MergePass(
                    [current EXCEPT
                        !.end_time = IF @ >= next_evt.end_time THEN @ ELSE next_evt.end_time,
                        !.details = IF IsSubstring(next_evt.details, @)
                                    THEN @ ELSE @ \o next_evt.details],
                    Tail(rest), stitched)
            ELSE MergePass(next_evt, Tail(rest), Append(stitched, current))

stitch_events(events) ==
    IF events = << >> THEN << >>
    ELSE LET sorted_events == sorted(events, "type,start_time")
         IN sorted(MergePass(Head(sorted_events), Tail(sorted_events), << >>),
                   "start_time")

\* the keys of a list item that _merge_details moves by the segment offset
ShiftedKeys(impl) ==
    IF impl = "src/postprocess" THEN {"timestamp", "start_sec", "end_sec"}
    ELSE {"timestamp", "start_sec", "end_sec", "start_time", "end_time"}

\* _merge_details on one item of a list value
new_item(impl, item, offset_sec) ==
    [item EXCEPT
        !.start_time = IF "start_time" \in ShiftedKeys(impl) THEN @ + offset_sec ELSE @,
        !.end_time = IF "end_time" \in ShiftedKeys(impl) THEN @ + offset_sec ELSE @]

\* the events lists a segment's report can carry: none, or one black_frame
LocalEvents ==
    {<< >>, <<Event("black_frame", 20, 50, <<"a">>)>>,
     <<Event("black_frame", 0, 30, <<"a">>)>>}

\* a report holds its events under details.events or, as the validator
\* contract has it, under events
SegmentReports == [at : {"details.events", "events"}, events : LocalEvents]

\* segments_results sorted by segment_id, segment i starting at i * SegmentSec
SegmentResults ==
    UNION {[1..n -> SegmentReports] : n \in 0..MaxSegments}

offset_sec(i) == (i - 1) * SegmentSec

MrgInit ==
    /\ CoreIdle
    /\ LibIdleBut("mrg")
    /\ \E s \in SegmentResults :
          mrg = [stage |-> "input", impl |-> MISSING, segments |-> s,
                 events |-> << >>, aggregated_events |-> MISSING]

\* modules[m].details.events after the loop of aggregate over the first n segments
RECURSIVE master_details(_, _, _)
master_details(impl, segments, n) ==
    IF n = 0 THEN << >>
    ELSE LET report == segments[n]
             value == IF report.at = "details.events" THEN report.events ELSE << >>
         IN master_details(impl, segments, n - 1)
            \o [k \in 1..Len(value) |-> new_item(impl, value[k], offset_sec(n))]

\* MasterAggregator.aggregate of src/postprocess
AggregateSrc ==
    /\ mrg.stage = "input"
    /\ mrg' = [mrg EXCEPT !.stage = "merged", !.impl = "src/postprocess",
                  !.events = master_details("src/postprocess", mrg.segments,
                                            Len(mrg.segments))]
    /\ UNCHANGED <<supVars, pol, agg, esc, sch, pipe, ldr, seg, par>>

\* MasterAggregator.aggregate of backend/python_core
AggregateBackend ==
    /\ mrg.stage = "input"
    /\ LET events == master_details("backend/python_core", mrg.segments,
                                    Len(mrg.segments))
       IN mrg' = [mrg EXCEPT !.stage = "merged", !.impl = "backend/python_core",
                     !.events = events,
                     !.aggregated_events = stitch_events(events)]
    /\ UNCHANGED <<supVars, pol, agg, esc, sch, pipe, ldr, seg, par>>

MrgNext ==
    \/ AggregateSrc
    \/ AggregateBackend

MrgSpec == MrgInit /\ [][MrgNext]_vars

\* ------------------------------------------------------------------------
\* stitch_events applied to a list of events, and to its own result
\* ------------------------------------------------------------------------
Events ==
    {Event(type, start_time, start_time + duration, <<details>>) :
        type \in {"black_frame", "freeze_frame"}, start_time \in {0, 2, 3},
        duration \in {0, 2}, details \in {"a", "b"}}

EventLists == UNION {[1..n -> Events] : n \in 0..MaxEvents}

StitchInit ==
    /\ CoreIdle
    /\ LibIdleBut("mrg")
    /\ \E l \in EventLists :
          mrg = [stage |-> "events", arg |-> l, events |-> l, calls |-> 0]

StitchEvents ==
    /\ mrg.stage = "events"
    /\ mrg.calls < 2
    /\ mrg' = [mrg EXCEPT !.arg = mrg.events, !.events = stitch_events(mrg.events),
                  !.calls = @ + 1]
    /\ UNCHANGED <<supVars, pol, agg, esc, sch, pipe, ldr, seg, par>>

StitchSpec == StitchInit /\ [][StitchEvents]_vars

\* ------------------------------------------------------------------------
\* The schema validator applied to one validator report
\* ------------------------------------------------------------------------
STATUS_ENUM == {"PASSED", "WARNING", "REJECTED", "ERROR"}

required_keys == {"module", "video_file", "status", "metrics", "events"}

\* a parsed report: the keys it has, the Python type of each required value,
\* the status value where it is a string, the truth value of events
ReportDicts ==
    [keys : SUBSET required_keys,
     module : {"str", "int"},
     video_file : {"str", "NoneType"},
     status : {[type |-> "str", value |-> s] : s \in STATUS_ENUM \cup {"CRASHED", "passed"}}
              \cup {[type |-> "int", value |-> 0], [type |-> "list", value |-> 0]},
     metrics : {"dict", "list"},
     events : [type : {"list", "str"}, empty : BOOLEAN] \cup {[type |-> "NoneType", empty |-> TRUE]}]

\* the events check is left out
validate_validator_output_NoEvidenceCheck(report) ==
    IF required_keys \ report.keys # {} THEN "ValueError"
    ELSE IF report.status.type = "list" THEN "TypeError"
    ELSE IF ~(report.status.type = "str" /\ report.status.value \in STATUS_ENUM)
    THEN "ValueError"
    ELSE "True"

\* validate_validator_output: the exception raised, or the value returned
validate_validator_output(report) ==
    IF required_keys \ report.keys # {} THEN "ValueError"
    \* an unhashable status cannot be looked up in the set STATUS_ENUM
    ELSE IF report.status.type = "list" THEN "TypeError"
    ELSE IF ~(report.status.type = "str" /\ report.status.value \in STATUS_ENUM)
    THEN "ValueError"
    ELSE IF report.status.value # "PASSED" /\ report.events.empty THEN "ValueError"
    ELSE "True"

SchInit ==
    /\ CoreIdle
    /\ LibIdleBut("sch")
    /\ \E r \in ReportDicts : sch = [stage |-> "input", report |-> r, result |-> MISSING]

Validate ==
    /\ sch.stage = "input"
    /\ sch' = [sch EXCEPT !.stage = "validated",
                  !.result = validate_validator_output(sch.report)]
    /\ UNCHANGED <<supVars, pol, agg, esc, mrg, pipe, ldr, seg, par>>

SchSpec == SchInit /\ [][Validate]_vars

\* ------------------------------------------------------------------------
\* run_qc_pipeline: the validators of the registry run in declared order
\* (a validator that never exits leaves the run in its running stage)
\* ------------------------------------------------------------------------
RegistrySize == 3

\* what a validator run leaves behind: its exit code and the file at
\* output_path (absent, not JSON, JSON but not an object, or a report)
ValidatorRuns ==
    [returncode : {0, 1},
     kind : {"absent", "corrupt", "nonobject"},
     report : {CHOOSE r \in ReportDicts : r.keys = {}}]
    \cup
    [returncode : {0, 1},
     kind : {"object"},
     report : {r \in ReportDicts :
                  /\ r.keys \in {required_keys, required_keys \ {"events"}}
                  /\ r.module = "str" /\ r.video_file = "str" /\ r.metrics = "dict"
                  /\ r.status.type = "str"
                  /\ r.status.value \in {"PASSED", "REJECTED", "CRASHED"}
                  /\ r.events.type = "list"}]

\* the exit code of the validator is not looked at
run_validator_IgnoresReturnCode(run) ==
    IF run.kind = "absent" THEN "RuntimeError"
    ELSE IF run.kind = "corrupt" THEN "JSONDecodeError"
    ELSE IF run.kind = "nonobject" THEN "AttributeError"
    ELSE validate_validator_output(run.report)

\* run_validator: the exception it raises, or "True" when it returns the report
run_validator(run) ==
    IF run.returncode # 0 THEN "RuntimeError"
    ELSE IF run.kind = "absent" THEN "RuntimeError"
    ELSE IF run.kind = "corrupt" THEN "JSONDecodeError"
    ELSE IF run.kind = "nonobject" THEN "AttributeError"
    ELSE validate_validator_output(run.report)

PipeInit ==
    /\ CoreIdle
    /\ LibIdleBut("pipe")
    /\ pipe = [stage |-> "running", next |-> 1, ran |-> << >>, exit_code |-> -1]

\* one iteration of the loop of main, with the except clause around the loop
PipeRunValidator ==
    /\ pipe.stage = "running"
    /\ pipe.next <= RegistrySize
    /\ \E run \in ValidatorRuns :
          LET ran == Append(pipe.ran, [validator |-> pipe.next, run |-> run])
          IN IF run_validator(run) = "True"
             THEN pipe' = [pipe EXCEPT !.next = @ + 1, !.ran = ran]
             ELSE pipe' = [pipe EXCEPT !.stage = "exited", !.ran = ran, !.exit_code = 3]
    /\ UNCHANGED <<supVars, pol, agg, esc, mrg, sch, ldr, seg, par>>

\* the loop is over: sys.exit(0)
PipeAllExecuted ==
    /\ pipe.stage = "running"
    /\ pipe.next > RegistrySize
    /\ pipe' = [pipe EXCEPT !.stage = "exited", !.exit_code = 0]
    /\ UNCHANGED <<supVars, pol, agg, esc, mrg, sch, ldr, seg, par>>

PipeNext ==
    \/ PipeRunValidator
    \/ PipeAllExecuted

PipeSpec == PipeInit /\ [][PipeNext]_vars

\* ------------------------------------------------------------------------
\* load_known_deviations over a file of key:value blocks.  A string is the
\* sequence of its parts ("ott_hd" is <<"ott", "_hd">>); a date is its
\* distance in days from today.
\* ------------------------------------------------------------------------
MaxBlocks == 2

\* the blocks of the file: the key under which the expiry date is written,
\* the date (and whether strptime parses it), the value of profiles
Blocks ==
    [expiry_key : {"expires_on", "expires"},
     date_ok : BOOLEAN,
     day : {-1, 0, 1},
     profiles : {<<"ott">>, <<"strict">>, <<"ott", "_hd">>, <<"strict", ", ", "ott">>}]

\* policy_engine._commit: TRUE when the block is appended to deviations
_commit(block, today, profile) ==
    IF ~IsSubstring(profile, block.profiles) THEN FALSE
    \* block["expires"]: KeyError, swallowed by except Exception
    ELSE IF block.expiry_key # "expires" THEN FALSE
    \* strptime: ValueError, swallowed
    ELSE IF ~block.date_ok THEN FALSE
    ELSE block.day >= today

\* run_ci._commit_deviation
_commit_deviation(block, today) ==
    IF block.expiry_key # "expires" THEN FALSE
    ELSE IF ~block.date_ok THEN FALSE
    ELSE block.day >= today

LdrInit ==
    /\ CoreIdle
    /\ LibIdleBut("ldr")
    /\ \E n \in 0..MaxBlocks : \E f \in [1..n -> Blocks] :
       \E p \in {<<"ott">>, <<"strict">>} :
          ldr = [stage |-> "input", impl |-> MISSING, file |-> f, profile |-> p,
                 deviations |-> << >>]

\* policy_engine.load_known_deviations
LoadPolicyEngine ==
    /\ ldr.stage = "input"
    /\ ldr' = [ldr EXCEPT !.stage = "loaded", !.impl = "policy_engine",
                  !.deviations = SelectSeq(ldr.file,
                                           LAMBDA b : _commit(b, 0, ldr.profile))]
    /\ UNCHANGED <<supVars, pol, agg, esc, mrg, sch, pipe, seg, par>>

\* run_ci.load_known_deviations
LoadRunCi ==
    /\ ldr.stage = "input"
    /\ ldr' = [ldr EXCEPT !.stage = "loaded", !.impl = "run_ci",
                  !.deviations = IF ldr.profile # <<"ott">> THEN << >>
                                 ELSE SelectSeq(ldr.file,
                                                LAMBDA b : _commit_deviation(b, 0))]
    /\ UNCHANGED <<supVars, pol, agg, esc, mrg, sch, pipe, seg, par>>

LdrNext ==
    \/ LoadPolicyEngine
    \/ LoadRunCi

LdrSpec == LdrInit /\ [][LdrNext]_vars

\* ------------------------------------------------------------------------
\* The segmenters: pipeline/segment_video.py and utils/video_segmenter.py.
\* Durations are whole numbers of one time unit.
\* ------------------------------------------------------------------------
MaxDuration == 5
MaxSegmentSec == 3

\* min returns its first argument
min_First(a, b) == a

min(a, b) == IF a <= b THEN a ELSE b

SegInit ==
    /\ CoreIdle
    /\ LibIdleBut("seg")
    /\ \E impl \in {"segment_video", "VideoSegmenter"} :
       \E duration \in 1..MaxDuration : \E segment_sec \in 1..MaxSegmentSec :
          seg = [stage |-> "cutting", impl |-> impl, duration |-> duration,
                 segment_sec |-> segment_sec, index |-> 0, start |-> 0,
                 segments |-> << >>, failed |-> {}]

\* segment_video.py: one pass of the while loop; a failing ffmpeg raises
\* CalledProcessError out of segment_video
SegmentVideoCut ==
    /\ seg.stage = "cutting"
    /\ seg.impl = "segment_video"
    /\ seg.start < seg.duration
    /\ \E cut_ok \in BOOLEAN :
          LET end == min(seg.start + seg.segment_sec, seg.duration)
          IN IF cut_ok
             THEN seg' = [seg EXCEPT
                             !.segments = Append(@, [index |-> seg.index,
                                                     start_sec |-> seg.start,
                                                     end_sec |-> end,
                                                     duration_sec |-> end - seg.start]),
                             !.start = end,
                             !.index = @ + 1]
             ELSE seg' = [seg EXCEPT !.stage = "raised", !.failed = @ \cup {seg.index}]
    /\ UNCHANGED <<supVars, pol, agg, esc, mrg, sch, pipe, ldr, par>>

\* segment_video.py: the loop is over, segments.json is written
SegmentVideoManifest ==
    /\ seg.stage = "cutting"
    /\ seg.impl = "segment_video"
    /\ seg.start >= seg.duration
    /\ seg' = [seg EXCEPT !.stage = "done"]
    /\ UNCHANGED <<supVars, pol, agg, esc, mrg, sch, pipe, ldr, par>>

\* int(total_duration // segment_duration_sec) + (1 if total_duration % ... > 0 else 0)
num_segments(total_duration, segment_duration_sec) ==
    (total_duration \div segment_duration_sec)
    + (IF total_duration % segment_duration_sec > 0 THEN 1 ELSE 0)

\* VideoSegmenter.segment_video: one pass of the for loop; a failing ffmpeg
\* is logged and the loop goes on (id, start_time and duration of the source
\* are index, start_sec and duration_sec here)
VideoSegmenterCut ==
    /\ seg.stage = "cutting"
    /\ seg.impl = "VideoSegmenter"
    /\ seg.index < num_segments(seg.duration, seg.segment_sec)
    /\ \E cut_ok \in BOOLEAN :
          LET start_time == seg.index * seg.segment_sec
          IN IF cut_ok
             THEN seg' = [seg EXCEPT
                             !.segments = Append(@, [index |-> seg.index,
                                                     start_sec |-> start_time,
                                                     duration_sec |-> min(seg.segment_sec,
                                                                          seg.duration - start_time)]),
                             !.index = @ + 1]
             ELSE seg' = [seg EXCEPT !.failed = @ \cup {seg.index}, !.index = @ + 1]
    /\ UNCHANGED <<supVars, pol, agg, esc, mrg, sch, pipe, ldr, par>>

\* VideoSegmenter.segment_video: return segments
VideoSegmenterReturns ==
    /\ seg.stage = "cutting"
    /\ seg.impl = "VideoSegmenter"
    /\ seg.index >= num_segments(seg.duration, seg.segment_sec)
    /\ seg' = [seg EXCEPT !.stage = "done"]
    /\ UNCHANGED <<supVars, pol, agg, esc, mrg, sch, pipe, ldr, par>>

SegNext ==
    \/ SegmentVideoCut
    \/ SegmentVideoManifest
    \/ VideoSegmenterCut
    \/ VideoSegmenterReturns

SegSpec == SegInit /\ [][SegNext]_vars

\* ------------------------------------------------------------------------
\* Merging the master reports of the segments of one asset.  A segment
\* result is the Master_Report.json of the segment, which may not exist;
\* each segment master of the model has one module.
\* ------------------------------------------------------------------------
SegMergeInit ==
    /\ CoreIdle
    /\ LibIdleBut("mrg")
    /\ \E n \in 0..MaxSegments :
       \E r \in [1..n -> [exists : {TRUE}, overall_status : Status4 \cup {"CRASHED"}]
                         \cup {[exists |-> FALSE, overall_status |-> MISSING]}] :
          mrg = [stage |-> "segments", impl |-> MISSING, segment_results |-> r,
                 written |-> FALSE, overall_status |-> MISSING]

\* segment_qc_runner.merge_reports
MergeReports ==
    /\ mrg.stage = "segments"
    /\ LET merge_rank == [s \in Status4 \cup {"CRASHED"} |->
                              CASE s = "PASSED" -> 1 [] s = "WARNING" -> 2
                                [] s = "REJECTED" -> 3 [] s = "ERROR" -> 4
                                [] OTHER -> 0]
           seen == {"PASSED"} \cup
                   {mrg.segment_results[i].overall_status :
                       i \in {j \in 1..Len(mrg.segment_results) :
                                 /\ mrg.segment_results[j].exists
                                 /\ merge_rank[mrg.segment_results[j].overall_status] > 0}}
           worst_status == CHOOSE s \in seen : \A t \in seen : merge_rank[t] <= merge_rank[s]
       IN mrg' = [mrg EXCEPT !.stage = "merged", !.impl = "merge_reports",
                     !.written = TRUE, !.overall_status = worst_status]
    /\ UNCHANGED <<supVars, pol, agg, esc, sch, pipe, ldr, seg, par>>

\* segment_master_aggregator: collect_segment_masters, then the command-line
\* body (SystemExit(1) when no master was found, aggregate_segments otherwise)
AggregateSegmentMasters ==
    /\ mrg.stage = "segments"
    /\ LET found == SelectSeq(mrg.segment_results, LAMBDA r : r.exists)
           segment_masters == [k \in 1..Len(found) |-> found[k].overall_status]
       IN mrg' = [mrg EXCEPT
                     !.stage = "merged", !.impl = "segment_master_aggregator",
                     !.written = segment_masters # << >>,
                     !.overall_status = IF segment_masters = << >> THEN "SystemExit"
                                        ELSE aggregate_segments(segment_masters)[1]]
    /\ UNCHANGED <<supVars, pol, agg, esc, sch, pipe, ldr, seg, par>>

SegMergeNext ==
    \/ MergeReports
    \/ AggregateSegmentMasters

SegMergeSpec == SegMergeInit /\ [][SegMergeNext]_vars

\* ------------------------------------------------------------------------
\* The parallel runner spark_qc_runner.run_parallel_qc: one task per video
\* found under the input directory (run_segmented_qc of segment_qc_runner
\* collects its futures with the same loop)
\* ------------------------------------------------------------------------
MaxTasks == 2

\* the paths rglob can find: directory below input_dir and stem of the file
VideoPaths == [dir : {"a", "b"}, stem : {"x", "y"}]

\* file_out_dir = os.path.join(base_out_dir, file_stem)
file_out_dir(input_path) == input_path.stem

ParInit ==
    /\ CoreIdle
    /\ LibIdleBut("par")
    /\ \E video_files \in SUBSET VideoPaths :
          /\ Cardinality(video_files) \in 1..MaxTasks
          /\ par = [stage |-> "collecting",
                    futures |-> [v \in video_files |-> "running"],
                    yielded |-> {},
                    results |-> << >>]

\* process_video_task ends in its worker: os.makedirs raises (it is outside
\* the try), or the function returns a SUCCESS, FAILED or CRASHED result
TaskEnds ==
    /\ par.stage = "collecting"
    /\ \E v \in DOMAIN par.futures :
       \E outcome \in {"SUCCESS", "FAILED", "CRASHED", "raised"} :
          /\ par.futures[v] = "running"
          /\ par' = [par EXCEPT !.futures[v] = outcome]
    /\ UNCHANGED <<supVars, pol, agg, esc, mrg, sch, pipe, ldr, seg>>

\* one pass of "for future in as_completed(futures)": future.result()
\* returns the result, which is appended, or re-raises the task's exception,
\* which leaves run_parallel_qc
Collect ==
    /\ par.stage = "collecting"
    /\ \E v \in DOMAIN par.futures :
          /\ par.futures[v] # "running"
          /\ v \notin par.yielded
          /\ IF par.futures[v] = "raised"
             THEN par' = [par EXCEPT !.stage = "raised", !.yielded = @ \cup {v}]
             ELSE par' = [par EXCEPT
                             !.yielded = @ \cup {v},
                             !.results = Append(@, [file |-> v,
                                                    status |-> par.futures[v],
                                                    output_dir |-> file_out_dir(v)])]
    /\ UNCHANGED <<supVars, pol, agg, esc, mrg, sch, pipe, ldr, seg>>

\* as_completed is exhausted: the summary is computed from results
Summary ==
    /\ par.stage = "collecting"
    /\ par.yielded = DOMAIN par.futures
    /\ par' = [par EXCEPT !.stage = "summary"]
    /\ UNCHANGED <<supVars, pol, agg, esc, mrg, sch, pipe, ldr, seg>>

ParNext ==
    \/ TaskEnds
    \/ Collect
    \/ Summary

ParSpec == ParInit /\ [][ParNext]_vars

\* ------------------------------------------------------------------------
\* generate_master_report.main over one validator report: the event dicts of
\* the loaded report are objects shared by master_data["modules"], by
\* all_raw_events and by the list stitch_events works on; id names the object
\* ------------------------------------------------------------------------
Offsets == {0, 2}

Object(id, e) ==
    [id |-> id, type |-> e.type, start_time |-> e.start_time,
     end_time |-> e.end_time, details |-> e.details]

EvtInit ==
    /\ CoreIdle
    /\ LibIdleBut("mrg")
    /\ \E l \in EventLists, segment_offset \in Offsets :
          mrg = [stage |-> "loaded",
                 data |-> [k \in 1..Len(l) |-> Object(k, l[k])],
                 segment_offset |-> segment_offset,
                 modules |-> [k \in 1..Len(l) |-> Object(k, l[k])],
                 aggregated_events |-> << >>]

\* lines 84-116: the report is stored under modules, each of its events gets
\* the offset added in place, and stitch_events extends current in place
MainCollectAndStitch ==
    /\ mrg.stage = "loaded"
    /\ LET all_raw_events ==
               [k \in 1..Len(mrg.data) |->
                   [mrg.data[k] EXCEPT !.start_time = @ + mrg.segment_offset,
                                       !.end_time = @ + mrg.segment_offset]]
           stitched == stitch_events(all_raw_events)
           object(k) ==
               IF \E i \in 1..Len(stitched) : stitched[i].id = k
               THEN LET i == CHOOSE i \in 1..Len(stitched) : stitched[i].id = k
                    IN stitched[i]
               ELSE all_raw_events[k]
       IN mrg' = [mrg EXCEPT !.stage = "written",
                             !.modules = [k \in 1..Len(mrg.data) |-> object(k)],
                             !.aggregated_events = stitched]
    /\ UNCHANGED <<supVars, pol, agg, esc, sch, pipe, ldr, seg, par>>

EvtSpec == EvtInit /\ [][MainCollectAndStitch]_vars

\* ------------------------------------------------------------------------
\* MasterAggregator over one scalar metric of one module, reported by every
\* segment. A key is the sequence of the words of its name, so that
\* "mean_phase" in key is a test for a subsequence.
\* ------------------------------------------------------------------------
MetricKeys ==
    {<<"mean", "phase">>, <<"min", "phase">>, <<"min", "luma">>,
     <<"max", "level">>, <<"sync", "offset">>, <<"decode", "error">>,
     <<"bitrate">>}

MetricValues == {0, 4, 8}

\* the else branch of _merge_details for a key already in master_details
merge_scalar(key, master_value, value) ==
    IF IsSubstring(<<"mean", "phase">>, key) THEN (master_value + value) \div 2
    ELSE IF IsSubstring(<<"min", "phase">>, key)
         THEN (IF master_value <= value THEN master_value ELSE value)
    ELSE IF IsSubstring(<<"offset">>, key) \/ IsSubstring(<<"error">>, key)
         THEN (IF master_value >= value THEN master_value ELSE value)
    ELSE master_value

\* aggregate's loop over self.segments_results for the one key
RECURSIVE merge_details(_, _, _)
merge_details(key, master_value, values) ==
    IF values = << >> THEN master_value
    ELSE merge_details(key, merge_scalar(key, master_value, Head(values)), Tail(values))

\* sorted(segments_results, key=lambda x: x['segment_id']) for distinct ids
segments_results(supplied) ==
    [i \in 1..Len(supplied) |->
        supplied[CHOOSE k \in 1..Len(supplied) : supplied[k].segment_id = i]]

MetInit ==
    /\ CoreIdle
    /\ LibIdleBut("mrg")
    /\ \E n \in 1..MaxSegments, key \in MetricKeys :
       \E ids \in {f \in [1..n -> 1..n] : \A a, b \in 1..n : a # b => f[a] # f[b]},
          values \in [1..n -> MetricValues] :
          mrg = [stage |-> "metrics",
                 key |-> key,
                 supplied |-> [k \in 1..n |-> [segment_id |-> ids[k], value |-> values[k]]],
                 master_value |-> -1]

AggregateMetric ==
    /\ mrg.stage = "metrics"
    /\ LET ordered == segments_results(mrg.supplied)
       IN mrg' = [mrg EXCEPT
                     !.stage = "metrics merged",
                     !.master_value =
                        merge_details(mrg.key, ordered[1].value,
                                      [k \in 1..(Len(ordered) - 1) |-> ordered[k + 1].value])]
    /\ UNCHANGED <<supVars, pol, agg, esc, sch, pipe, ldr, seg, par>>

MetSpec == MetInit /\ [][AggregateMetric]_vars

\* ------------------------------------------------------------------------
\* Properties of the supervisor (checked under Spec)
\* ------------------------------------------------------------------------
\* the contents of the file parse as JSON
Parses(f) == f.kind \in {"nonobject", "object"}

LastResult == results[Len(results)]

\* C1: one call of run_validator_with_retry starts the subprocess at most
\* MAX_RETRIES + 1 = 3 times; the test of an attempt returns with success only
\* if the exit code is 0, the report file exists and parses as JSON, and then
\* no further subprocess is started by the call; every other outcome of an
\* attempt (non-zero exit, missing file, corrupt JSON, spawn exception) leads
\* to the next attempt while fewer than 3 have been started, and to the
\* exhaustion path otherwise.
C1_RetryDiscipline ==
    [][ /\ spawns' <= MAX_RETRIES + 1
        /\ (spawns' # spawns /\ pc # "call")
              => (pc = "attempt" /\ spawns' = spawns + 1)
        /\ (pc = "check" /\ pc' = "returned")
              => /\ rc = 0 /\ Exists(files[vi]) /\ Parses(files[vi])
                 /\ results'[Len(results')].how = "success"
                 /\ spawns' = spawns
        /\ (pc = "check" /\ rc = 0 /\ files[vi].kind = "object") => pc' = "returned"
        /\ (pc = "check" /\ pc' # "returned") => pc' = "after"
        /\ (pc = "running" /\ pc' \notin {"check", "blocked"}) => pc' = "after"
        /\ (pc = "after" /\ spawns < MAX_RETRIES + 1) => pc' = "attempt"
        /\ (pc = "after" /\ spawns >= MAX_RETRIES + 1)
              => (pc' = "returned" /\ results'[Len(results')].how = "exhausted")
        /\ pc = "attempt" => (pc' = "running" /\ spawns' = spawns + 1)
        /\ pc' = "attempt" => pc \in {"call", "after"}
        /\ pc = "returned" => spawns' = spawns
      ]_vars

\* C1 witness: a call that returned with success from its third attempt,
\* after two failed attempts.
C1_Witness ==
    /\ pc = "returned"
    /\ spawns = MAX_RETRIES + 1
    /\ LastResult.how = "success"

\* C2: once run_validator_with_retry has returned for a validator, a file
\* that parses as JSON exists at its report path; if the call ran out of
\* attempts, the file is the synthesized report (status and effective_status
\* CRASHED, written by the supervisor over whatever was there) and the
\* returned status is CRASHED.
C2_ReportAlwaysLeft ==
    \A i \in 1..Len(results) :
        /\ Exists(files[i])
        /\ Parses(files[i])
        /\ results[i].how = "exhausted"
              => /\ files[i].by = "supervisor"
                 /\ files[i].kind = "object"
                 /\ files[i].status = "CRASHED"
                 /\ files[i].effective_status = "CRASHED"
                 /\ results[i].status = "CRASHED"

\* C2 witness: a call returned after exhausting its attempts, the last of
\* which exited 0 (so the validator had left no loadable report).
C2_Witness ==
    /\ pc = "returned"
    /\ LastResult.how = "exhausted"
    /\ rc = 0
    /\ spawns = MAX_RETRIES + 1

\* C3: the supervisor always terminates, also when a validator process never
\* exits: the orchestrator is never in a state, short of its own exit, from
\* which it cannot take a step.
C3_SupervisorNeverBlocks == pc = "exited" \/ ENABLED Next

\* C4: no failure of the validator (non-zero exit, no output file, corrupt
\* or non-object JSON, exception while spawning) makes an exception leave
\* run_validator_with_retry; a call whose attempts all failed returns a
\* result with status CRASHED.
C4_SupervisorNeverRaises ==
    /\ pc # "raised"
    /\ \A i \in 1..Len(results) :
          results[i].how = "exhausted" => results[i].status = "CRASHED"
    /\ (pc = "after" /\ spawns >= MAX_RETRIES + 1) => ENABLED Exhausted

\* C4 witness: an attempt that exited 0 and left non-object JSON has been
\* judged a failure and the supervisor goes on.
C4_Witness ==
    /\ pc = "after"
    /\ rc = 0
    /\ files[vi].kind = "nonobject"

\* C9: a run in which some validator ended CRASHED never finishes with
\* overall status PASSED or WARNING, nor with exit code 0.
C9_CrashedEscalates ==
    (pc = "exited" /\ \E i \in 1..Len(results) : results[i].status = "CRASHED")
        => /\ master.overall_status \notin {"PASSED", "WARNING"}
           /\ exitCode # 0

\* ------------------------------------------------------------------------
\* Properties of the policy engine (checked under PolicySpec)
\* ------------------------------------------------------------------------
Resolved == pol.stage \in {"resolved", "done"}

\* C5: resolve_module_status (both implementations) returns REJECTED for
\* every REJECTED report, whatever the profile, module, error_code and
\* deviations, and ERROR for every ERROR report under profile strict; in both
\* cases without a policy note.
C5_PolicyNonRegression ==
    Resolved =>
        /\ pol.report.status = "REJECTED"
              => (pol.effective = "REJECTED" /\ pol.notes = << >>)
        /\ (pol.report.status = "ERROR" /\ pol.profile = "strict")
              => (pol.effective = "ERROR" /\ pol.notes = << >>)

\* C5 witness: a tooling ERROR with an eligible error_code was resolved under
\* strict although the list holds a deviation for its module and condition.
C5_Witness ==
    /\ Resolved
    /\ pol.impl = "policy_engine"
    /\ pol.report = [module |-> "qctools_qc", status |-> "ERROR",
                     error_code |-> "QCTOOLS_UNAVAILABLE"]
    /\ pol.profile = "strict"
    /\ \E i \in 1..Len(pol.devs) :
          /\ pol.devs[i].module = "qctools_qc"
          /\ pol.devs[i].condition = "QCTOOLS_UNAVAILABLE"

\* the conditions under which the ERROR of a report may be softened
DeviationApplies ==
    /\ pol.report.status = "ERROR"
    /\ pol.profile # "strict"
    /\ pol.report.module \in TOOLING_MODULES
    /\ pol.report.error_code \in DEVIATION_ELIGIBLE_ERRORS
    /\ \E i \in 1..Len(pol.devs) :
          /\ ~pol.devs[i].expired
          /\ pol.devs[i].module = pol.report.module
          /\ pol.devs[i].condition = pol.report.error_code
          /\ pol.profile \in pol.devs[i].profiles

\* C6: resolve_module_status returns NOT_APPLICABLE exactly when the raw
\* status is ERROR, the profile is not strict, the module is tooling-only,
\* the error_code is deviation-eligible and the list holds a non-expired
\* deviation with the report's module and error_code whose profiles include
\* the active profile; otherwise it returns the raw status.
C6_SoftenedIffDeviationApplies ==
    Resolved =>
        pol.effective = IF DeviationApplies THEN "NOT_APPLICABLE" ELSE pol.report.status

QctoolsUnavailable ==
    [module |-> "qctools_qc", status |-> "ERROR", error_code |-> "QCTOOLS_UNAVAILABLE"]

DevsForQctools == {i \in 1..Len(pol.devs) : pol.devs[i].module = "qctools_qc"}

StatusSet == {agg.statuses[i] : i \in 1..Len(agg.statuses)}

\* the verdict by worst status, ERROR > REJECTED > WARNING > PASSED
WorstVerdict ==
    IF "ERROR" \in StatusSet THEN <<"ERROR", 3>>
    ELSE IF "REJECTED" \in StatusSet THEN <<"REJECTED", 2>>
    ELSE IF "WARNING" \in StatusSet THEN <<"WARNING", 0>>
    ELSE <<"PASSED", 0>>

\* C8: compute_ci (both implementations) returns, whatever the order of the
\* map, (ERROR, 3) if a module is ERROR, else (REJECTED, 2) if one is
\* REJECTED, else (WARNING, 0) if one is WARNING, else (PASSED, 0).
C8_ComputeCiWorstStatus ==
    (agg.stage = "done" /\ agg.fn \in {"policy_engine.compute_ci", "run_ci.compute_ci"})
        => agg.verdict = WorstVerdict

\* C10: after aggregating reports whose statuses are among PASSED, WARNING,
\* REJECTED and ERROR, in any order, the overall status of the master report
\* is the worst of them.
C10_OverallIsWorst ==
    (/\ agg.stage = "done"
     /\ agg.fn \in {"generate_master_report", "MasterAggregator", "aggregate_segments"}
     /\ agg.statuses # << >>
     /\ StatusSet \subseteq Status4)
        => agg.verdict[1] = WorstVerdict[1]

\* ------------------------------------------------------------------------
\* Properties of the per-module escalation (checked under EscSpec)
\* ------------------------------------------------------------------------
\* rank of a status in the Status ordering PASSED < WARNING < REJECTED < ERROR
Severity(s) ==
    CASE s = "PASSED" -> 0
      [] s = "WARNING" -> 1
      [] s = "REJECTED" -> 2
      [] s = "ERROR" -> 3

\* C11: after each report fed to an aggregator for one module, the status
\* stored for the module is the most severe, under the Status ordering, of
\* the statuses fed so far (so it never moves to a less severe value and
\* does not depend on the order of arrival).
C11_StoredIsWorstSeen ==
    esc.stage = "feeding" /\ esc.seen # << >> =>
        /\ \E i \in 1..Len(esc.seen) : esc.stored = esc.seen[i]
        /\ \A i \in 1..Len(esc.seen) : Severity(esc.seen[i]) <= Severity(esc.stored)

\* ------------------------------------------------------------------------
\* Properties of the segment merge (MrgSpec) and of stitching (StitchSpec)
\* ------------------------------------------------------------------------
\* the events of all segments of the run, each moved by its segment's offset
RECURSIVE GlobalEvents(_, _)
GlobalEvents(segments, n) ==
    IF n = 0 THEN << >>
    ELSE GlobalEvents(segments, n - 1)
         \o [k \in 1..Len(segments[n].events) |->
                [segments[n].events[k] EXCEPT !.start_time = @ + offset_sec(n),
                                               !.end_time = @ + offset_sec(n)]]

\* the events of the aggregate written by the run
TopLevelAggregate ==
    IF mrg.aggregated_events = MISSING THEN mrg.events ELSE mrg.aggregated_events

\* C12: after the merge of the segments of a run, the aggregate holds every
\* event of every segment report, none lost and none stitched to an event of
\* another segment, with start_time and end_time moved by the offset of its
\* segment (two segments at 0 s and 300 s with a black_frame at local 2.0-5.0
\* give exactly the events 2.0-5.0 and 302.0-305.0).
C12_OffsetCorrectness ==
    mrg.stage = "merged" =>
        TopLevelAggregate = GlobalEvents(mrg.segments, Len(mrg.segments))

\* C13: stitch_events applied to its own result returns that result: the same
\* events in the same order with the same types, times and details.
C13_StitchIdempotent ==
    mrg.stage = "events" /\ mrg.calls = 2 => mrg.events = mrg.arg

C13_Witness ==
    /\ mrg.stage = "events"
    /\ mrg.calls = 2
    /\ Len(mrg.events) = 2
    /\ \E i \in 1..2 : Len(mrg.events[i].details) = 2

\* the events of the argument that a returned event o stands for: same type,
\* starting inside o
CoveredBy(o, arg) ==
    {k \in 1..Len(arg) : /\ arg[k].type = o.type
                         /\ o.start_time <= arg[k].start_time
                         /\ arg[k].start_time <= o.end_time + Tolerance}

\* C26: the list stitch_events returns is ordered by non-decreasing
\* start_time; two returned events of the same type are more than the
\* tolerance apart; every event of the argument lies inside a returned event
\* of its own type; a returned event starts at the earliest start_time and
\* ends at the largest end_time of the events merged into it, and each of
\* those events but the first starts no later than the tolerance after the
\* end of an earlier one (so events are merged exactly when they are of one
\* type and within the tolerance, and never across types).
C26_StitchMergesExactly ==
    (mrg.stage = "events" /\ mrg.calls >= 1) =>
        LET arg == mrg.arg
            out == mrg.events
        IN /\ \A i \in 1..(Len(out) - 1) : out[i].start_time <= out[i + 1].start_time
           /\ \A i, j \in 1..Len(out) :
                 (i < j /\ out[i].type = out[j].type)
                    => out[j].start_time > out[i].end_time + Tolerance
           /\ \A k \in 1..Len(arg) :
                 \E i \in 1..Len(out) :
                    /\ out[i].type = arg[k].type
                    /\ out[i].start_time <= arg[k].start_time
                    /\ arg[k].end_time <= out[i].end_time
           /\ \A i \in 1..Len(out) :
                 LET group == CoveredBy(out[i], arg)
                 IN /\ \E k \in group : arg[k].start_time = out[i].start_time
                    /\ \E k \in group : arg[k].end_time = out[i].end_time
                    /\ \A k \in group : arg[k].end_time <= out[i].end_time
                    /\ \A k \in group :
                          arg[k].start_time > out[i].start_time
                             => \E h \in group :
                                   /\ arg[h].start_time < arg[k].start_time
                                   /\ arg[k].start_time <= arg[h].end_time + Tolerance

\* three events given in start order, the two black frames within the
\* tolerance of each other and a freeze frame between them in time: the
\* result holds one merged black frame and the freeze frame
C26_Witness ==
    /\ mrg.stage = "events"
    /\ mrg.calls = 1
    /\ Len(mrg.arg) = 3
    /\ mrg.arg[1].type = "black_frame" /\ mrg.arg[1].start_time = 0 /\ mrg.arg[1].end_time = 2
    /\ mrg.arg[2].type = "freeze_frame" /\ mrg.arg[2].start_time = 2
    /\ mrg.arg[3].type = "black_frame" /\ mrg.arg[3].start_time = 3 /\ mrg.arg[3].end_time = 5
    /\ Len(mrg.events) = 2
    /\ mrg.events[1].type = "black_frame"
    /\ mrg.events[1].start_time = 0 /\ mrg.events[1].end_time = 5

\* ------------------------------------------------------------------------
\* Properties of the schema validator (checked under SchSpec)
\* ------------------------------------------------------------------------
\* the report breaks the validator contract: a required key is missing, the
\* status is not one of PASSED, WARNING, REJECTED, ERROR, or a status other
\* than PASSED comes without events
ContractViolation(r) ==
    \/ \E k \in required_keys : k \notin r.keys
    \/ r.status.type # "str"
    \/ r.status.value \notin {"PASSED", "WARNING", "REJECTED", "ERROR"}
    \/ r.status.value # "PASSED" /\ r.events.empty

C15_WrongTypeRejected ==
    sch.stage = "validated"
    /\ \/ "module" \in sch.report.keys /\ sch.report.module # "str"
       \/ "video_file" \in sch.report.keys /\ sch.report.video_file # "str"
       \/ "status" \in sch.report.keys /\ sch.report.status.type # "str"
       \/ "metrics" \in sch.report.keys /\ sch.report.metrics # "dict"
       \/ "events" \in sch.report.keys /\ sch.report.events.type # "list"
    => sch.result # "True"

\* ------------------------------------------------------------------------
\* Properties of run_qc_pipeline (checked under PipeSpec)
\* ------------------------------------------------------------------------
\* the validator exited with 0 and left a report that keeps the contract
CleanRun(run) ==
    /\ run.returncode = 0
    /\ run.kind = "object"
    /\ ~ContractViolation(run.report)

\* C16: in run_qc_pipeline a validator that crashes, leaves no report or
\* leaves a report that breaks the contract ends the run at once: no later
\* validator is started and the exit code is 3; the exit code is 0 only when
\* every validator of the registry ran, in declared order, and each left a
\* report that passes the schema validation.
C16_ViolationIsFatal ==
    /\ \A i \in 1..Len(pipe.ran) :
          /\ pipe.ran[i].validator = i
          /\ ~CleanRun(pipe.ran[i].run) =>
                /\ i = Len(pipe.ran)
                /\ pipe.stage = "exited"
                /\ pipe.exit_code = 3
    /\ pipe.stage = "exited" /\ pipe.exit_code = 0 =>
          /\ Len(pipe.ran) = RegistrySize
          /\ \A i \in 1..RegistrySize : CleanRun(pipe.ran[i].run)
    /\ pipe.stage = "exited" => pipe.exit_code \in {0, 3}

C16_Witness ==
    /\ pipe.stage = "exited"
    /\ pipe.exit_code = 3
    /\ Len(pipe.ran) = 2
    /\ pipe.ran[2].run.returncode = 0
    /\ pipe.ran[2].run.kind = "object"
    /\ pipe.ran[2].run.report.keys = required_keys
    /\ pipe.ran[2].run.report.status.value = "REJECTED"
    /\ pipe.ran[2].run.report.events.empty

\* ------------------------------------------------------------------------
\* Properties of the orchestrator's result (checked under Spec)
\* ------------------------------------------------------------------------
\* C17: the exit code of the orchestrator mirrors the verdict of the run: 0
\* for an overall status PASSED or WARNING, 2 for REJECTED, 3 for ERROR or an
\* execution error; a run whose master report says REJECTED or CRASHED does
\* not exit with 0.
C17_ExitCodeMirrorsVerdict ==
    pc = "exited" /\ master.exists =>
        exitCode = CASE master.overall_status \in {"PASSED", "WARNING"} -> 0
                     [] master.overall_status = "REJECTED" -> 2
                     [] OTHER -> 3

C19_LoadsApplicableBlocks ==
    (/\ ldr.stage = "loaded"
     /\ \A i \in 1..Len(ldr.file) : ldr.file[i].expiry_key = "expires_on")
    => ldr.deviations =
          SelectSeq(ldr.file,
                    LAMBDA b : /\ b.date_ok
                               /\ b.day >= 0
                               /\ \E k \in 1..Len(b.profiles) :
                                     <<b.profiles[k]>> = ldr.profile)

\* ------------------------------------------------------------------------
\* Properties of the segmenters (checked under SegSpec)
\* ------------------------------------------------------------------------
\* ceil(duration / segment_sec)
Ceil(duration, segment_sec) == (duration + segment_sec - 1) \div segment_sec

\* the segment of the list is the interval of its index in the partition of
\* [0, duration): it starts where the interval before it ends, has the full
\* length unless it is the last interval, and the last ends at duration
IsPartitionInterval(s) ==
    LET n == Ceil(seg.duration, seg.segment_sec)
    IN /\ s.index \in 0..(n - 1)
       /\ s.start_sec = s.index * seg.segment_sec
       /\ s.duration_sec = IF s.index < n - 1 THEN seg.segment_sec
                           ELSE seg.duration - (n - 1) * seg.segment_sec
       /\ s.index = n - 1 => s.start_sec + s.duration_sec = seg.duration

C21_FailedCutDoesNotAbort ==
    /\ seg.stage # "raised"
    /\ seg.stage = "done" =>
          \A i \in 0..(Ceil(seg.duration, seg.segment_sec) - 1) :
             \/ i \in seg.failed
             \/ \E k \in 1..Len(seg.segments) : seg.segments[k].index = i

\* ------------------------------------------------------------------------
\* Properties of the merge of segment masters (checked under SegMergeSpec)
\* ------------------------------------------------------------------------
\* C22: when the master report of at least one segment is missing at merge
\* time, the merged report that is written does not carry the verdict PASSED
\* (neither merged report has a field that could record the hole).
C22_MissingSegmentNotPassed ==
    (/\ mrg.stage = "merged"
     /\ mrg.written
     /\ \E i \in 1..Len(mrg.segment_results) : ~mrg.segment_results[i].exists)
    => mrg.overall_status # "PASSED"

\* C29: whenever run_validator_with_retry returns a successful result, the
\* report file it has read was written by the validator during the attempt
\* that exited with code 0, not by an earlier attempt of the call or by an
\* earlier run into the same output directory.
C29_ReportIsOfThisAttempt ==
    (pc = "check" /\ AttemptSucceeds(rc, files[vi])) =>
        /\ files[vi].by = "validator"
        /\ files[vi].at = attempt

\* ------------------------------------------------------------------------
\* The placeholder report and the schema validator (checked under SchSpec)
\* ------------------------------------------------------------------------
\* of the required keys, crash_data of run_validator_with_retry has module
\* and status (besides effective_status and details); its status is CRASHED
IsCrashData(r) ==
    /\ r.keys = {"module", "status"}
    /\ r.module = "str"
    /\ r.status = [type |-> "str", value |-> "CRASHED"]

\* C30: the CRASHED placeholder report that the supervisor writes for a
\* validator that failed every attempt passes validate_validator_output.
C30_CrashReportPassesSchema ==
    (sch.stage = "validated" /\ IsCrashData(sch.report)) => sch.result = "True"

\* ------------------------------------------------------------------------
\* Properties of the parallel runner (checked under ParSpec)
\* ------------------------------------------------------------------------
\* C23: when the collection loop of the runner is over, however the workers
\* interleaved, the results hold exactly one entry for each dispatched task,
\* and every task has returned.
C23_OneResultPerTask ==
    par.stage \in {"summary", "raised"} =>
        /\ \A v \in DOMAIN par.futures :
              /\ par.futures[v] # "running"
              /\ Cardinality({k \in 1..Len(par.results) : par.results[k].file = v}) = 1
        /\ Len(par.results) = Cardinality(DOMAIN par.futures)

\* C24: no two distinct tasks of one run are given the same output directory.
C24_ExclusiveOutputDirs ==
    par.stage # "idle" =>
        \A v, w \in DOMAIN par.futures :
           (v # w /\ par.futures[v] = "running" /\ par.futures[w] = "running")
              => file_out_dir(v) # file_out_dir(w)

\* ------------------------------------------------------------------------
\* Properties of the master report's inputs (checked under Spec)
\* ------------------------------------------------------------------------
\* C25: a report that loads but has no status field (and no effective
\* status) is aggregated as status ERROR, so the master report containing
\* it has overall status ERROR.
C25_MissingStatusIsError ==
    (/\ master.exists
     /\ \E i \in Validators :
           /\ Exists(files[i])
           /\ LoadOutcome(files[i]) = "ok"
           /\ files[i].status = MISSING
           /\ files[i].effective_status = MISSING)
        => /\ master.overall_status = "ERROR"
           /\ \E k \in 1..Len(master.modules) : master.modules[k] = "ERROR"

\* ------------------------------------------------------------------------
\* Properties of the event collection of the master report (checked under
\* EvtSpec)
\* ------------------------------------------------------------------------
\* C27: once the master report is written, each event of the report stored
\* in its modules map has the start_time, end_time and details it had when
\* the validator report was loaded.
C27_ModuleEventsUnchanged ==
    mrg.stage = "written" =>
        \A k \in 1..Len(mrg.data) :
           /\ mrg.modules[k].start_time = mrg.data[k].start_time
           /\ mrg.modules[k].end_time = mrg.data[k].end_time
           /\ mrg.modules[k].details = mrg.data[k].details

\* ------------------------------------------------------------------------
\* Properties of the scalar metrics of the segment merge (checked under
\* MetSpec)
\* ------------------------------------------------------------------------
\* C28: for a scalar key reported by several segments, the merged value is
\* the minimum of the values when the key is named min_*, the maximum when
\* it is named max_* or contains offset or error, and otherwise the value of
\* the segment with the lowest id, in whatever order the segment results
\* were supplied (mean_* keys, which are averaged, are left aside).
C28_NameBasedReduction ==
    (mrg.stage = "metrics merged" /\ mrg.key[1] # "mean") =>
        LET values == {mrg.supplied[k].value : k \in 1..Len(mrg.supplied)}
            first == (CHOOSE r \in {mrg.supplied[k] : k \in 1..Len(mrg.supplied)} :
                         r.segment_id = 1).value
        IN mrg.master_value =
              IF mrg.key[1] = "min"
              THEN CHOOSE v \in values : \A w \in values : v <= w
              ELSE IF \/ mrg.key[1] = "max"
                      \/ IsSubstring(<<"offset">>, mrg.key)
                      \/ IsSubstring(<<"error">>, mrg.key)
                   THEN CHOOSE v \in values : \A w \in values : v >= w
                   ELSE first

====
